---- MODULE Spec2Model ----
(***************************************************************************)
(* Build-task orchestration of astrbot_plugin_win_packer: the priority     *)
(* task queue (ThreadSafeTaskQueue), the single-slot TaskExecutor and the  *)
(* BuildOrchestrator control loop.  One action per public operation and    *)
(* per stretch of a coroutine between two suspension points of the asyncio *)
(* event loop.                                                             *)
(***************************************************************************)
EXTENDS Integers, Sequences, FiniteSets, TLC

(* ------------------------------ bounds --------------------------------- *)
\* number of BuildTask objects ever created (each gets a fresh uuid)
MaxTasks == 3
\* largest reading of datetime.now() (readings never decrease, may repeat)
MaxClock == 1

\* number of enqueues a directly driven queue accepts
MaxEnqueued == 3
\* number of coroutines that call the queue concurrently
MaxCallers == 2
\* number of enqueues accepted by a queue on which peek is called
MaxPeekEnqueued == 4
\* number of output lines read from one build process
MaxLines == 3
\* number of callbacks registered, over the three callback lists
MaxCallbacks == 2
\* number of requests submitted while the callbacks are watched
MaxNotified == 2

Tasks == 1..MaxTasks
Callers == 1..MaxCallers

(* ----------------------- program constants ----------------------------- *)
\* QueuePriority values
LOW == 1
NORMAL == 2
HIGH == 3
URGENT == 4
\* priorities the modelled callers use
Priorities == {NORMAL, HIGH}

\* BuildConfiguration.min_size_threshold, in GiB
min_size_threshold == 2
\* sizes of a discovered artifact, in GiB
ArtifactSizes == {1, 2}

\* result callbacks registered on the orchestrator
NumResultCallbacks == 1

\* Python None for task ids / process handles / positions
None == 0
\* Python None for BuildTask.return_code
NoRC == -2
\* exit codes a build process can end with
ExitCodes == {0, 1}
\* Python None for BuildTask.started_at / completed_at
NoTime == -1
\* process ids handed to start_execution
Pids == {1234}
\* error_message arguments ("none": the argument left out)
Messages == {"none", "Build failed"}
\* Python None for BuildTask.arg3
NoArg3 == "<None>"

(* --------------------------- BuildTask --------------------------------- *)
\* BuildTask.start_execution: the new status, or "raise"
start_execution(st) ==
    IF st # "QUEUED" THEN "raise" ELSE "RUNNING"

\* mutant: complete_execution records the exit code but leaves the status
complete_execution_keeps_status(st, return_code, has_error) ==
    IF st # "RUNNING" THEN "raise" ELSE st

\* mutant: complete_execution ignores the exit code
complete_execution_ignores_code(st, return_code, has_error) ==
    IF st # "RUNNING" THEN "raise" ELSE "COMPLETED"

\* BuildTask.complete_execution: the new status, or "raise"
complete_execution(st, return_code, has_error) ==
    IF st # "RUNNING" THEN "raise"
    ELSE IF return_code = 0 /\ ~has_error THEN "COMPLETED" ELSE "FAILED"

\* mutant: cancel_execution without the status test
cancel_execution_unchecked(st) == "CANCELLED"

\* BuildTask.cancel_execution: the new status, or "raise"
cancel_execution(st) ==
    IF st \notin {"QUEUED", "RUNNING"} THEN "raise" ELSE "CANCELLED"

\* BuildTask(branch="main", strategy=BuildStrategy.SIMPLE): the fields the
\* constructor validates and those the execution methods touch
BuildTask ==
    [branch |-> <<"m", "a", "i", "n">>, strategy |-> "simple", arg3 |-> NoArg3,
     status |-> "PENDING", started_at |-> NoTime, completed_at |-> NoTime,
     process_id |-> None, return_code |-> NoRC, error_message |-> "none"]

\* BuildTask.start_execution(process_id) at clock reading at: whether it
\* raises, and the object afterwards
BuildTask_start_execution(b, process_id, at) ==
    IF start_execution(b.status) = "raise"
    THEN [raised |-> TRUE, task |-> b]
    ELSE [raised |-> FALSE,
          task |-> [b EXCEPT !.status = start_execution(b.status),
                             !.started_at = at,
                             !.process_id = process_id]]

\* BuildTask.complete_execution(return_code, error_message)
BuildTask_complete_execution(b, rc, msg, at) ==
    IF complete_execution(b.status, rc, msg # "none") = "raise"
    THEN [raised |-> TRUE, task |-> b]
    ELSE [raised |-> FALSE,
          task |-> [b EXCEPT !.completed_at = at,
                             !.return_code = rc,
                             !.error_message = msg,
                             !.status = complete_execution(b.status, rc, msg # "none")]]

\* BuildTask.cancel_execution(error_message)
BuildTask_cancel_execution(b, msg, at) ==
    IF cancel_execution(b.status) = "raise"
    THEN [raised |-> TRUE, task |-> b]
    ELSE [raised |-> FALSE,
          task |-> [b EXCEPT !.status = cancel_execution(b.status),
                             !.completed_at = at,
                             !.error_message =
                                 IF msg = "none" THEN "Task cancelled by user" ELSE msg]]

(* --------------------------- QueuedTask -------------------------------- *)
\* QueuedTask(task, priority, queued_at = datetime.now())
QueuedTask(t, p, at) == [id |-> t, priority |-> p, queued_at |-> at]

\* priority.name, written to the persistence file
PriorityName(p) ==
    IF p = LOW THEN "LOW" ELSE IF p = NORMAL THEN "NORMAL"
    ELSE IF p = HIGH THEN "HIGH" ELSE "URGENT"

\* QueuePriority[name], read back from the persistence file
PriorityByName(n) ==
    IF n = "LOW" THEN LOW ELSE IF n = "NORMAL" THEN NORMAL
    ELSE IF n = "HIGH" THEN HIGH ELSE URGENT

\* datetime.isoformat() / datetime.fromisoformat(): the text keeps the
\* reading to the microsecond, the resolution of the datetime itself
isoformat(at) == <<"iso", at>>
fromisoformat(text) == text[2]

\* QueuedTask.__lt__
Lt(a, b) ==
    IF a.priority # b.priority
    THEN a.priority > b.priority
    ELSE a.queued_at < b.queued_at

(* ----------- heapq, as used by asyncio.PriorityQueue ------------------- *)
\* heap positions are 0-based as in heapq; heap[pos + 1] is Python's heap[pos]
RECURSIVE siftdown_loop(_, _, _, _)
siftdown_loop(heap, startpos, pos, newitem) ==
    IF pos > startpos
    THEN LET parentpos == (pos - 1) \div 2
             parent == heap[parentpos + 1]
         IN  IF Lt(newitem, parent)
             THEN siftdown_loop([heap EXCEPT ![pos + 1] = parent], startpos, parentpos, newitem)
             ELSE [heap EXCEPT ![pos + 1] = newitem]
    ELSE [heap EXCEPT ![pos + 1] = newitem]

siftdown(heap, startpos, pos) == siftdown_loop(heap, startpos, pos, heap[pos + 1])

RECURSIVE siftup_loop(_, _, _)
siftup_loop(heap, pos, newitem) ==
    LET endpos == Len(heap)
        leftpos == 2 * pos + 1
        rightpos == leftpos + 1
        childpos == IF rightpos < endpos /\ ~Lt(heap[leftpos + 1], heap[rightpos + 1])
                    THEN rightpos ELSE leftpos
    IN  IF leftpos < endpos
        THEN siftup_loop([heap EXCEPT ![pos + 1] = heap[childpos + 1]], childpos, newitem)
        ELSE siftdown([heap EXCEPT ![pos + 1] = newitem], 0, pos)

siftup(heap, pos) == siftup_loop(heap, pos, heap[pos + 1])

\* PriorityQueue._put
heappush(heap, item) == siftdown(Append(heap, item), 0, Len(heap))

\* PriorityQueue._get: the item returned and the heap left
heappop(heap) ==
    LET lastelt == heap[Len(heap)]
        rest == SubSeq(heap, 1, Len(heap) - 1)
    IN  IF rest # <<>>
        THEN [item |-> rest[1], heap |-> siftup([rest EXCEPT ![1] = lastelt], 0)]
        ELSE [item |-> lastelt, heap |-> rest]

\* list.sort() on QueuedTask objects: stable, by __lt__
RECURSIVE sort_insert(_, _)
sort_insert(sorted, x) ==
    IF sorted = <<>> THEN <<x>>
    ELSE IF Lt(x, sorted[Len(sorted)])
         THEN Append(sort_insert(SubSeq(sorted, 1, Len(sorted) - 1), x), sorted[Len(sorted)])
         ELSE Append(sorted, x)

RECURSIVE list_sort(_)
list_sort(items) ==
    IF items = <<>> THEN <<>>
    ELSE sort_insert(list_sort(SubSeq(items, 1, Len(items) - 1)), items[Len(items)])

(* ------------------------ sequence helpers ----------------------------- *)
Ids(entries) == {entries[i].id : i \in 1..Len(entries)}

Without(entries, t) == SelectSeq(entries, LAMBDA e : e.id # t)

\* 1-based index of the entry for task t, or None
IndexOf(entries, t) ==
    IF t \in Ids(entries)
    THEN CHOOSE i \in 1..Len(entries) : entries[i].id = t
    ELSE None

(* ------------- request validation (strings are character lists) ------- *)
\* branch arguments of the modelled requests: "main", "", " ", " main ",
\* "a:b", "a/b", "..", "con"
Branches ==
    {<<"m", "a", "i", "n">>, <<>>, <<" ">>, <<" ", "m", "a", "i", "n", " ">>,
     <<"a", ":", "b">>, <<"a", "/", "b">>, <<".", ".">>, <<"c", "o", "n">>}
\* strategy arguments of the modelled requests
StrategyInputs == {"simple", "Special", "bogus"}
\* arg3 arguments of the modelled requests ("": None or empty)
Arg3Inputs == {"", "x"}

\* BuildStrategy values
BuildStrategyValues == {"simple", "develop", "debug", "special", "all"}

\* str.lower() on the strategy arguments
lower(text) == IF text = "Special" THEN "special" ELSE text

\* BuildStrategy.from_string: the enum value, or "raise"
from_string(value) ==
    IF lower(value) \in BuildStrategyValues THEN lower(value) ELSE "raise"

\* `char in text`
Contains(text, char) == \E i \in 1..Len(text) : text[i] = char

\* `'..' in text`
ContainsDotDot(text) ==
    \E i \in 1..(Len(text) - 1) : text[i] = "." /\ text[i + 1] = "."

\* str.strip()
RECURSIVE lstrip(_)
lstrip(text) ==
    IF text # <<>> /\ text[1] = " " THEN lstrip(Tail(text)) ELSE text

RECURSIVE rstrip(_)
rstrip(text) ==
    IF text # <<>> /\ text[Len(text)] = " "
    THEN rstrip(SubSeq(text, 1, Len(text) - 1)) ELSE text

strip(text) == rstrip(lstrip(text))

\* str.upper() on the letters of the branch arguments
upper_char(char) ==
    IF char = "a" THEN "A" ELSE IF char = "b" THEN "B" ELSE IF char = "c" THEN "C"
    ELSE IF char = "i" THEN "I" ELSE IF char = "m" THEN "M" ELSE IF char = "n" THEN "N"
    ELSE IF char = "o" THEN "O" ELSE char

upper(text) == [i \in 1..Len(text) |-> upper_char(text[i])]

\* _validate_build_request: "valid", or the error it reports
validate_build_request(branch, strategy, arg3) ==
    IF from_string(strategy) = "raise" THEN "Invalid build strategy"
    ELSE IF branch = <<>> \/ strip(branch) = <<>> THEN "Branch must be a non-empty string"
    ELSE IF from_string(strategy) = "special" /\ arg3 = ""
    THEN "arg3 is required for SPECIAL build strategy"
    ELSE "valid"

\* mutant: _validate_arg3 tests `self.arg3 is None`
validate_arg3_tests_none_only(strategy, arg3) ==
    strategy = "special" /\ arg3 = NoArg3

\* BuildTask._validate_arg3 raises:
\* `self.strategy == BuildStrategy.SPECIAL and not self.arg3`
validate_arg3_raises(strategy, arg3) ==
    strategy = "special" /\ arg3 \in {NoArg3, ""}

\* BuildTask.__post_init__: "ok", or the ValueError it raises
BuildTask_post_init(branch, strategy, arg3) ==
    IF branch = <<>> THEN "Branch must be a non-empty string"
    ELSE IF strip(branch) = <<>> THEN "Branch cannot be only whitespace"
    ELSE IF \E char \in {"<", ">", ":", "\"", "|", "?", "*"} : Contains(branch, char)
    THEN "Branch name contains invalid characters"
    ELSE IF validate_arg3_raises(strategy, arg3)
    THEN "arg3 is required for SPECIAL build strategy"
    ELSE "ok"

\* _create_build_task: "ok", or the ValueError raised on the way
create_build_task(branch, strategy, arg3) ==
    IF from_string(strategy) = "raise" THEN "Invalid build strategy"
    ELSE BuildTask_post_init(strip(branch), from_string(strategy), arg3)

\* reserved_names of _is_valid_branch_name
reserved_names ==
    {<<"C", "O", "N">>, <<"P", "R", "N">>, <<"A", "U", "X">>,
     <<"N", "U", "L">>, <<"C", "O", "M", "1">>, <<"C", "O", "M", "2">>,
     <<"C", "O", "M", "3">>, <<"C", "O", "M", "4">>,
     <<"C", "O", "M", "5">>, <<"C", "O", "M", "6">>,
     <<"C", "O", "M", "7">>, <<"C", "O", "M", "8">>,
     <<"C", "O", "M", "9">>, <<"L", "P", "T", "1">>,
     <<"L", "P", "T", "2">>, <<"L", "P", "T", "3">>,
     <<"L", "P", "T", "4">>, <<"L", "P", "T", "5">>,
     <<"L", "P", "T", "6">>, <<"L", "P", "T", "7">>,
     <<"L", "P", "T", "8">>, <<"L", "P", "T", "9">>}

\* FileManager._is_valid_branch_name
is_valid_branch_name(branch) ==
    /\ branch # <<>>
    /\ Len(branch) <= 100
    /\ ~\E char \in {"<", ">", ":", "\"", "|", "?", "*", "/", "\\", "NUL char"} :
          Contains(branch, char)
    /\ upper(branch) \notin reserved_names

\* mutant: get_branch_paths without its checks
get_branch_paths_unchecked(branch, roots_pass) == TRUE

\* FileManager.get_branch_paths returns (does not raise SecurityError);
\* roots_pass: validate_path accepts the configured workspace_root and
\* publish_root_base themselves
get_branch_paths(branch, roots_pass) ==
    /\ is_valid_branch_name(branch)
    /\ ~ContainsDotDot(branch)
    /\ ~\E char \in {"<", ">", "\"", "|", "?", "*"} : Contains(branch, char)
    /\ roots_pass

\* submit_build_request up to the `if self._is_processing` test: "accepted",
\* or the class of the exception raised to the submitter
submit_outcome(branch, strategy, arg3, roots_pass) ==
    IF validate_build_request(branch, strategy, arg3) # "valid" THEN "ValidationError"
    ELSE IF create_build_task(branch, strategy, arg3) # "ok" THEN "ValueError"
    ELSE IF ~get_branch_paths(branch, roots_pass) THEN "SecurityError"
    ELSE "accepted"

(* ------------------ TaskExecutor._run_build_process -------------------- *)
\* the keys of `stages`, in the order the dict literal lists them
stages ==
    <<"Running AutomationTool...", "Command: BuildCookRun", "Cook: ", "Stage: ",
      "Package: ", "BUILD SUCCESSFUL">>

Triggers == {stages[i] : i \in 1..Len(stages)}

\* a decoded and stripped output line (line_str), as the set of triggers
\* that occur in it; the modelled lines hold at most two
Lines == {line \in SUBSET Triggers : Cardinality(line) <= 2}

\* _run_build_process(task) is entered: triggered_stages = set(); line_no
\* counts the lines read; seen (the first line each trigger occurred in) and
\* sent (the lines at which a ProgressUpdate was emitted for it) are kept
\* for the record. None as the task stands for "no execution yet".
run_build_process(task) ==
    [task |-> task, triggered_stages |-> {}, line_no |-> 0,
     seen |-> [trigger \in Triggers |-> 0],
     sent |-> [trigger \in Triggers |-> <<>>]]

\* the `for trigger, message in stages.items()` loop on one line: the index
\* of the trigger a ProgressUpdate is sent for (the loop breaks there), or 0
stage_match(line, triggered_stages) ==
    IF \E i \in 1..Len(stages) : stages[i] \in line /\ stages[i] \notin triggered_stages
    THEN CHOOSE i \in 1..Len(stages) :
            /\ stages[i] \in line /\ stages[i] \notin triggered_stages
            /\ \A j \in 1..(i - 1) : ~(stages[j] \in line /\ stages[j] \notin triggered_stages)
    ELSE 0

\* one non-empty line read and handled by the loop body
read_line(r, line) ==
    LET i == stage_match(line, r.triggered_stages)
        no == r.line_no + 1
    IN  [task |-> r.task,
         triggered_stages |-> IF i = 0 THEN r.triggered_stages
                                   ELSE r.triggered_stages \cup {stages[i]},
         line_no |-> no,
         seen |-> [trigger \in Triggers |->
                     IF trigger \in line /\ r.seen[trigger] = 0 THEN no
                     ELSE r.seen[trigger]],
         sent |-> [trigger \in Triggers |->
                     IF i # 0 /\ trigger = stages[i] THEN Append(r.sent[trigger], no)
                     ELSE r.sent[trigger]]]

(* ------------------------------ state ---------------------------------- *)
VARIABLES
    status,           \* BuildTask.status of every task ("none": not created yet)
    return_code,      \* BuildTask.return_code
    error_message,    \* BuildTask.error_message
    heap,             \* ThreadSafeTaskQueue._queue (the PriorityQueue's heap list)
    lookup,           \* ThreadSafeTaskQueue._task_lookup (a dict, in insertion order)
    total_enqueued,   \* ThreadSafeTaskQueue._total_enqueued
    total_dequeued,   \* ThreadSafeTaskQueue._total_dequeued
    file,             \* the persistence file's content
    rebuild_pending,  \* a _rebuild_priority_queue coroutine is scheduled
    lock,             \* ThreadSafeTaskQueue._lock: the caller holding it, or None
    qop,              \* the queue operation every caller is inside, and how far
    now,              \* the last reading of datetime.now()
    is_processing,    \* BuildOrchestrator._is_processing
    orch_current,     \* BuildOrchestrator._current_task
    ex_task,          \* TaskExecutor._current_task
    ex_process,       \* TaskExecutor._current_process (the task it was launched for)
    is_executing,     \* TaskExecutor._is_executing
    is_cancelled,     \* TaskExecutor._is_cancelled
    pc,               \* position of the _process_build_task coroutine of every task
    proc,             \* the external build process launched for every task
    returncode,       \* _current_process.returncode (NoRC: no handle, or still running)
    artifact,         \* what get_latest_build_info found for the task whose result is
                      \* being built and delivered: the artifact's size, or None
    result,           \* the BuildResult built for every task
    delivered,        \* result callbacks that have received that BuildResult
    ret,              \* what the last public operation returned
    owed,             \* per task id: enqueues accepted minus dequeues that returned it
    qcancelled,       \* ids for which cancel_task has returned True
    bt,               \* a BuildTask object whose methods are called directly
    reader,           \* one _run_build_process call: triggered_stages, and for the
                      \* record the lines read and the ProgressUpdates emitted
    cbs               \* the callback lists, and for the event being notified the
                      \* callbacks invoked so far and which of them raised

queue_vars == <<heap, lookup, total_enqueued, total_dequeued, file, rebuild_pending, owed>>
task_vars == <<status, return_code, error_message>>
orch_vars == <<is_processing, orch_current>>
exec_vars == <<ex_task, ex_process, is_executing, is_cancelled>>
run_vars == <<pc, proc, returncode, artifact, result, delivered>>
lock_vars == <<lock, qop>>
unit_vars == <<bt, reader, cbs>>
model_vars == <<task_vars, queue_vars, lock_vars, orch_vars, exec_vars, run_vars, qcancelled>>
vars == <<status, return_code, error_message, heap, lookup, total_enqueued,
          total_dequeued, file, rebuild_pending, lock, qop, now, is_processing, orch_current, ex_task,
          ex_process, is_executing, is_cancelled, pc, proc, returncode, artifact, result,
          delivered, ret, owed, qcancelled, bt, reader, cbs>>

NoResult == [built |-> FALSE, success |-> FALSE, build_info |-> None, error |-> "none", code |-> 0]
NoRet == [op |-> "none", status |-> "none", task |-> None, position |-> None]
Idle == [op |-> "idle", step |-> "none", task |-> None]
\* the three callback lists: BuildOrchestrator._progress_callbacks and
\* _result_callbacks, TaskExecutor._progress_callbacks
Kinds == {"progress", "result", "executor_progress"}
NoEvent == [kind |-> "none", task |-> None]
NoCallbacks ==
    [registry |-> [kind \in Kinds |-> <<>>], event |-> NoEvent,
     invoked |-> <<>>, raised |-> <<>>]
NoFile == [exists |-> FALSE, tasks |-> <<>>, total_enqueued |-> 0, total_dequeued |-> 0]

Init ==
    /\ status = [t \in Tasks |-> "none"]
    /\ return_code = [t \in Tasks |-> NoRC]
    /\ error_message = [t \in Tasks |-> "none"]
    /\ heap = <<>>
    /\ lookup = <<>>
    /\ total_enqueued = 0
    /\ total_dequeued = 0
    /\ file = NoFile
    /\ rebuild_pending = FALSE
    /\ lock = None
    /\ qop = [c \in Callers |-> Idle]
    /\ now = 0
    /\ is_processing = FALSE
    /\ orch_current = None
    /\ ex_task = None
    /\ ex_process = None
    /\ is_executing = FALSE
    /\ is_cancelled = FALSE
    /\ pc = [t \in Tasks |-> "none"]
    /\ proc = [t \in Tasks |-> "none"]
    /\ returncode = NoRC
    /\ artifact = None
    /\ result = [t \in Tasks |-> NoResult]
    /\ delivered = [t \in Tasks |-> 0]
    /\ ret = NoRet
    /\ owed = [t \in Tasks |-> 0]
    /\ qcancelled = {}
    /\ bt = BuildTask
    /\ reader = run_build_process(None)
    /\ cbs = NoCallbacks

\* the uuid of the next BuildTask created
Created == {t \in Tasks : status[t] # "none"}
NextId == Cardinality(Created) + 1

(* ------------------------ ThreadSafeTaskQueue -------------------------- *)
\* _persist_queue: the snapshot written from _task_lookup and the counters
persist(lk, st, enq, deq) ==
    [exists |-> TRUE,
     tasks |-> [i \in 1..Len(lk) |->
                  [id |-> lk[i].id, priority |-> PriorityName(lk[i].priority),
                   queued_at |-> isoformat(lk[i].queued_at), status |-> st[lk[i].id]]],
     total_enqueued |-> enq,
     total_dequeued |-> deq]

\* mutant: get_task_position without the sort
get_task_position_unsorted(lk, t) ==
    IF t \notin Ids(lk) THEN None ELSE IndexOf(lk, t)

\* get_task_position: 1-based index in the sorted values of _task_lookup
get_task_position(lk, t) ==
    IF t \notin Ids(lk) THEN None ELSE IndexOf(list_sort(lk), t)

\* mutant: enqueue without the duplicate test
enqueue_accepts_always(t) == TRUE

\* enqueue: the `task.task_id in self._task_lookup` test passes
enqueue_accepts(t) == t \notin Ids(lookup)

\* enqueue up to `await self._persist_queue()`, for a task that is not in
\* _task_lookup, at clock reading at
enqueue_change(t, p, at) ==
    /\ status' = [status EXCEPT ![t] = "QUEUED"]
    /\ heap' = heappush(heap, QueuedTask(t, p, at))
    /\ lookup' = Append(lookup, QueuedTask(t, p, at))
    /\ total_enqueued' = total_enqueued + 1
    /\ total_dequeued' = total_dequeued
    /\ now' = at
    /\ owed' = [owed EXCEPT ![t] = @ + 1]
    /\ UNCHANGED rebuild_pending

\* enqueue of a task that is not in _task_lookup
enqueue(t, p, at) ==
    /\ enqueue_change(t, p, at)
    /\ file' = persist(lookup', status', total_enqueued', total_dequeued')

\* dequeue: the task returned (None on an empty queue)
dequeue_task == IF heap = <<>> THEN None ELSE heappop(heap).item.id

\* dequeue on a non-empty queue, up to `await self._persist_queue()`
dequeue_change ==
    /\ heap' = heappop(heap).heap
    /\ lookup' = Without(lookup, dequeue_task)
    /\ total_dequeued' = total_dequeued + 1
    /\ total_enqueued' = total_enqueued
    /\ owed' = [owed EXCEPT ![dequeue_task] = @ - 1]
    /\ UNCHANGED rebuild_pending

\* dequeue: its effect on the queue
dequeue ==
    IF heap = <<>>
    THEN UNCHANGED queue_vars
    ELSE /\ dequeue_change
         /\ file' = persist(lookup', status, total_enqueued', total_dequeued')

\* cancel_task: True iff the id is in _task_lookup and cancel_execution accepts
cancel_task_found(t) ==
    t \in Ids(lookup) /\ cancel_execution(status[t]) # "raise"

\* cancel_task: what it leaves in the PriorityQueue
cancel_task_heap(t) == heap

\* mutant: cancel_task without `del self._task_lookup[task_id]`
cancel_task_keeps_lookup(t) == lookup

\* cancel_task: `del self._task_lookup[task_id]`
cancel_task_lookup(t) == Without(lookup, t)

\* cancel_task of a task it finds, up to `await self._persist_queue()`
cancel_task_change(t) ==
    /\ status' = [status EXCEPT ![t] = cancel_execution(status[t])]
    /\ error_message' = [error_message EXCEPT ![t] = "Cancelled from queue"]
    /\ lookup' = cancel_task_lookup(t)
    /\ heap' = cancel_task_heap(t)
    /\ qcancelled' = qcancelled \cup {t}
    /\ UNCHANGED <<total_enqueued, total_dequeued, rebuild_pending, owed>>

\* cancel_task
cancel_task(t) ==
    IF cancel_task_found(t)
    THEN /\ cancel_task_change(t)
         /\ file' = persist(lookup', status', total_enqueued, total_dequeued)
    ELSE UNCHANGED <<status, error_message, queue_vars, qcancelled>>

\* clear_queue up to `await self._persist_queue()` (every task in
\* _task_lookup is QUEUED, so cancel_execution accepts)
clear_queue_change ==
    /\ status' = [t \in Tasks |->
                    IF t \in Ids(lookup) THEN cancel_execution(status[t]) ELSE status[t]]
    /\ error_message' = [t \in Tasks |->
                    IF t \in Ids(lookup) THEN "Queue cleared" ELSE error_message[t]]
    /\ heap' = <<>>
    /\ lookup' = <<>>
    /\ UNCHANGED <<total_enqueued, total_dequeued, rebuild_pending, owed>>

\* clear_queue
clear_queue ==
    /\ clear_queue_change
    /\ file' = persist(lookup', status', total_enqueued, total_dequeued)

\* _load_persisted_tasks: the _task_lookup restored from the file
load_persisted_tasks(f) ==
    [i \in 1..Len(f.tasks) |->
        QueuedTask(f.tasks[i].id, PriorityByName(f.tasks[i].priority),
                   fromisoformat(f.tasks[i].queued_at))]

\* _rebuild_priority_queue: every value of _task_lookup put on an empty queue
RECURSIVE rebuild_priority_queue(_)
rebuild_priority_queue(lk) ==
    IF lk = <<>> THEN <<>>
    ELSE heappush(rebuild_priority_queue(SubSeq(lk, 1, Len(lk) - 1)), lk[Len(lk)])

\* peek: the items list, filled by `await self._queue.get()` until the queue
\* is empty
RECURSIVE peek_items(_)
peek_items(h) ==
    IF h = <<>> THEN <<>>
    ELSE <<heappop(h).item>> \o peek_items(heappop(h).heap)

\* peek: the PriorityQueue after `items.sort()` and putting every item back
peek_heap == rebuild_priority_queue(list_sort(peek_items(heap)))

\* peek: the task returned (None on an empty queue)
peek_task == IF heap = <<>> THEN None ELSE list_sort(peek_items(heap))[1].id

\* get_queue_size: self._queue.qsize()
get_queue_size == Len(heap)

\* get_queue_status: total_size, and tasks_by_priority counted over the
\* values of _task_lookup (tasks_by_branch counts the same values by branch)
get_queue_status ==
    [total_size |-> Len(heap),
     tasks_by_priority |->
        [p \in {LOW, NORMAL, HIGH, URGENT} |->
            Cardinality({i \in 1..Len(lookup) : lookup[i].priority = p})],
     tasks_in_lookup |-> Len(lookup)]

(* ----------------------- BuildOrchestrator ----------------------------- *)
\* mutant: `task.return_code or 0`
return_code_or_zero(rc) == IF rc = NoRC THEN 0 ELSE rc

\* `task.return_code or -1` in _process_build_results
return_code_or(rc) == IF rc = NoRC \/ rc = 0 THEN -1 ELSE rc

\* _determine_build_success; build_info is None or the artifact's size
determine_build_success(build_info, rc) ==
    IF rc # 0
    THEN [success |-> FALSE, reason |-> "Process exited with code", code |-> rc]
    ELSE IF build_info = None
    THEN [success |-> FALSE, reason |-> "No build artifacts detected", code |-> 0]
    ELSE IF build_info < min_size_threshold
    THEN [success |-> FALSE, reason |-> "Build artifact too small", code |-> 0]
    ELSE [success |-> TRUE, reason |-> "none", code |-> 0]

\* mutant: the failure BuildResult is built without the exception text
FailureResult_without_text(text) ==
    [built |-> TRUE, success |-> FALSE, build_info |-> None, error |-> "none", code |-> 0]

\* the failure BuildResult built in _process_build_task's except block
FailureResult(text) ==
    [built |-> TRUE, success |-> FALSE, build_info |-> None, error |-> text, code |-> 0]

\* _process_build_results, given what get_latest_build_info found
\* (found = FALSE: it builds BuildInfo(path=""), whose validation raises)
process_build_results(t, found, size, rc) ==
    IF ~found
    THEN FailureResult("Path must be a non-empty string")
    ELSE LET check == determine_build_success(size, return_code_or(rc))
         IN  IF check.success
             THEN [built |-> TRUE, success |-> TRUE, build_info |-> size,
                   error |-> "none", code |-> 0]
             ELSE [built |-> TRUE, success |-> FALSE, build_info |-> None,
                   error |-> check.reason, code |-> check.code]

\* mutant: submit_build_request tests the current task, not the busy flag
submit_tests_current_task == orch_current # None

\* submit_build_request: the `if self._is_processing` test
submit_enqueues == is_processing

\* submit_build_request with valid input and priority p
Submit(p) ==
    /\ NextId \in Tasks
    /\ LET t == NextId IN
       IF submit_enqueues
       THEN \E at \in now..MaxClock :
              /\ enqueue(t, p, at)
              /\ ret' = [op |-> "submit", status |-> "queued", task |-> t,
                         position |-> get_task_position(lookup', t)]
              /\ UNCHANGED <<return_code, error_message, orch_vars, exec_vars,
                             run_vars, qcancelled>>
       ELSE /\ status' = [status EXCEPT ![t] = "PENDING"]
            /\ is_processing' = TRUE
            /\ pc' = [pc EXCEPT ![t] = "scheduled"]
            /\ ret' = [op |-> "submit", status |-> "started", task |-> t,
                       position |-> None]
            /\ UNCHANGED <<return_code, error_message, queue_vars, now, orch_current,
                           exec_vars, proc, returncode, artifact, result, delivered, qcancelled>>
    /\ UNCHANGED lock_vars
    /\ UNCHANGED unit_vars

\* cancel_build(task_id): delegates to the queue's cancel_task
CancelBuildTask(t) ==
    /\ t \in Created
    /\ cancel_task(t)
    /\ ret' = [op |-> "cancel_build",
               status |-> IF cancel_task_found(t) THEN "cancelled" ELSE "not_found",
               task |-> None, position |-> None]
    /\ UNCHANGED <<return_code, now, orch_vars, exec_vars, run_vars>>
    /\ UNCHANGED lock_vars
    /\ UNCHANGED unit_vars

\* mutant: cancel_current_task tests the executing flag only
cancel_current_task_tests_flag_only == is_executing

\* cancel_current_task: `if not self._is_executing or not
\* self._current_process: return False` is passed
cancel_current_task_accepts == is_executing /\ ex_process # None

\* cancel_current_task: sets the cancellation flag and runs taskkill on a
\* process that has not exited, which may or may not end it
cancel_current_task ==
    IF cancel_current_task_accepts
    THEN /\ is_cancelled' = TRUE
         /\ \E killed \in (IF ex_process # None /\ proc[ex_process] = "running"
                            THEN BOOLEAN ELSE {FALSE}) :
              IF killed
              THEN /\ proc' = [proc EXCEPT ![ex_process] = "exited"]
                   /\ returncode' = 1
              ELSE UNCHANGED <<proc, returncode>>
    ELSE UNCHANGED <<is_cancelled, proc, returncode>>

\* mutant: cancel_build tests the orchestrator's current task only
cancel_build_tests_current_only == orch_current # None

\* cancel_build(): `if self._current_task and self.task_executor.is_executing()`
cancel_build_finds_task == orch_current # None /\ is_executing

\* cancel_build(): cancel_current_task on the executor
CancelBuildCurrent ==
    /\ Created # {}
    /\ IF cancel_build_finds_task
       THEN /\ cancel_current_task
            /\ ret' = [op |-> "cancel_build",
                       status |-> IF cancel_current_task_accepts
                                  THEN "cancelled" ELSE "failed",
                       task |-> None, position |-> None]
       ELSE /\ ret' = [op |-> "cancel_build", status |-> "no_task",
                       task |-> None, position |-> None]
            /\ UNCHANGED <<is_cancelled, proc, returncode>>
    /\ UNCHANGED <<task_vars, queue_vars, now, orch_vars, ex_task, ex_process,
                   is_executing, pc, artifact, result, delivered, qcancelled>>
    /\ UNCHANGED lock_vars
    /\ UNCHANGED unit_vars

\* the build_clear_queue command: clear_queue on the queue
ClearQueue ==
    /\ Created # {}
    /\ clear_queue
    /\ ret' = [op |-> "clear_queue", status |-> "none", task |-> None,
               position |-> Len(heap)]
    /\ UNCHANGED <<return_code, now, orch_vars, exec_vars, run_vars, qcancelled>>
    /\ UNCHANGED lock_vars
    /\ UNCHANGED unit_vars

\* _process_build_task starts running: sets _current_task, then awaits the
\* "preparation" progress callbacks
Begin(t) ==
    /\ pc[t] = "scheduled"
    /\ orch_current' = t
    /\ pc' = [pc EXCEPT ![t] = "prep"]
    /\ UNCHANGED <<task_vars, queue_vars, now, is_processing, exec_vars, proc,
                   returncode, artifact, result, delivered, ret, qcancelled>>
    /\ UNCHANGED lock_vars
    /\ UNCHANGED unit_vars

\* mutant: execute_task's `finally` without `self._is_cancelled = False`
executor_reset_keeps_flag ==
    /\ ex_task' = None
    /\ ex_process' = None
    /\ is_executing' = FALSE
    /\ is_cancelled' = is_cancelled
    /\ returncode' = NoRC

\* execute_task's `finally`
executor_reset ==
    /\ ex_task' = None
    /\ ex_process' = None
    /\ is_executing' = FALSE
    /\ is_cancelled' = FALSE
    /\ returncode' = NoRC

\* execute_task's `except`: complete_execution(-1, str(e)), then re-raise; the
\* orchestrator's `except` turns whatever is raised into a failure BuildResult
executor_except(t, st, text) ==
    LET done == complete_execution(st, -1, TRUE) IN
    /\ IF done = "raise"
       THEN /\ status' = [status EXCEPT ![t] = st]
            /\ UNCHANGED <<return_code, error_message>>
            /\ result' = [result EXCEPT ![t] = FailureResult("Cannot complete task with status")]
       ELSE /\ status' = [status EXCEPT ![t] = done]
            /\ return_code' = [return_code EXCEPT ![t] = -1]
            /\ error_message' = [error_message EXCEPT ![t] = text]
            /\ result' = [result EXCEPT ![t] = FailureResult(text)]
    /\ executor_reset
    /\ pc' = [pc EXCEPT ![t] = "notify"]

\* mutant: execute_task without the `if self._is_executing` test
execute_task_unguarded == FALSE

\* execute_task: the `if self._is_executing` test
execute_task_rejects == is_executing

\* execute_task(t) from its first line up to awaiting
\* create_subprocess_shell; when it raises at once, its caller's `except`
\* builds the failure BuildResult
execute_task_enter(t) ==
    IF execute_task_rejects
    THEN /\ result' = [result EXCEPT ![t] = FailureResult("Executor is already running a task")]
         /\ pc' = [pc EXCEPT ![t] = "notify"]
         /\ UNCHANGED exec_vars
    ELSE /\ ex_task' = t
         /\ is_executing' = TRUE
         /\ is_cancelled' = FALSE
         /\ pc' = [pc EXCEPT ![t] = "launching"]
         /\ UNCHANGED <<ex_process, result>>

\* disk check done; execute_task entered, up to awaiting create_subprocess_shell
Prepare(t) ==
    /\ pc[t] = "prep"
    /\ execute_task_enter(t)
    /\ UNCHANGED <<task_vars, queue_vars, now, orch_vars, proc, returncode,
                   artifact, delivered, ret, qcancelled>>
    /\ UNCHANGED lock_vars
    /\ UNCHANGED unit_vars

\* _start_build_process returns or raises, then task.start_execution(pid)
Launch(t) ==
    /\ pc[t] = "launching"
    /\ \E launched \in BOOLEAN :
         IF ~launched
         THEN /\ executor_except(t, status[t], "Failed to start build process")
              /\ UNCHANGED <<proc, artifact>>
         ELSE /\ proc' = [proc EXCEPT ![t] = "running"]
              /\ UNCHANGED artifact
              /\ IF start_execution(status[t]) = "raise"
                 THEN executor_except(t, status[t], "Cannot start task with status")
                 ELSE /\ status' = [status EXCEPT ![t] = start_execution(status[t])]
                      /\ ex_process' = t
                      /\ pc' = [pc EXCEPT ![t] = "reading"]
                      /\ UNCHANGED <<return_code, error_message, result, ex_task,
                                     is_executing, is_cancelled, returncode>>
    /\ UNCHANGED <<queue_vars, now, orch_vars, delivered, ret, qcancelled>>
    /\ UNCHANGED lock_vars
    /\ UNCHANGED unit_vars

\* an external build process exits by itself
ProcExit(t) ==
    /\ proc[t] = "running"
    /\ proc' = [proc EXCEPT ![t] = "exited"]
    /\ IF ex_process = t
       THEN \E rc \in ExitCodes : returncode' = rc
       ELSE UNCHANGED returncode
    /\ UNCHANGED <<task_vars, queue_vars, now, orch_vars, exec_vars, pc, artifact,
                   result, delivered, ret, qcancelled>>
    /\ UNCHANGED lock_vars
    /\ UNCHANGED unit_vars

\* the read loop ends and process.wait() returns; the task is completed or
\* cancelled, the executor reset, and _process_build_results builds the result
ReadLoopEnd(t) ==
    /\ pc[t] = "reading"
    /\ proc[t] = "exited"
    /\ LET rc == returncode
           st == IF is_cancelled
                 THEN cancel_execution(status[t])
                 ELSE complete_execution(status[t], rc, rc # 0)
           trc == IF is_cancelled THEN return_code[t] ELSE rc
       IN /\ status' = [status EXCEPT ![t] = st]
          /\ return_code' = [return_code EXCEPT ![t] = trc]
          /\ error_message' = [error_message EXCEPT ![t] =
                                 IF is_cancelled THEN "Task was cancelled during execution"
                                 ELSE IF rc = 0 THEN "none" ELSE "Process exited with code"]
          /\ \E found \in {None} \cup ArtifactSizes :
               /\ artifact' = found
               /\ result' = [result EXCEPT ![t] =
                               process_build_results(t, found # None, found, trc)]
    /\ executor_reset
    /\ pc' = [pc EXCEPT ![t] = "notify"]
    /\ UNCHANGED <<queue_vars, now, orch_vars, proc, delivered, ret, qcancelled>>
    /\ UNCHANGED lock_vars
    /\ UNCHANGED unit_vars

\* reading the process output raises (a line over the stream limit):
\* _run_build_process wraps it in ProcessError, execute_task's except runs
ReadError(t) ==
    /\ pc[t] = "reading"
    /\ executor_except(t, status[t], "Process execution failed")
    /\ UNCHANGED <<queue_vars, now, orch_vars, proc, artifact, delivered, ret, qcancelled>>
    /\ UNCHANGED lock_vars
    /\ UNCHANGED unit_vars

\* mutant: _process_next_task never clears the busy flag
process_next_task_keeps_flag(t) ==
    /\ dequeue
    /\ IF dequeue_task # None
       THEN pc' = [pc EXCEPT ![t] = "done", ![dequeue_task] = "scheduled"]
       ELSE pc' = [pc EXCEPT ![t] = "done"]
    /\ UNCHANGED is_processing

\* mutant: _process_next_task dequeues the next task but never starts it
process_next_task_drops_next(t) ==
    /\ dequeue
    /\ pc' = [pc EXCEPT ![t] = "done"]
    /\ IF dequeue_task # None
       THEN UNCHANGED is_processing
       ELSE is_processing' = FALSE

\* mutant: _process_next_task clears the busy flag also when it starts the
\* next task
process_next_task_clears_flag(t) ==
    /\ dequeue
    /\ is_processing' = FALSE
    /\ IF dequeue_task # None
       THEN pc' = [pc EXCEPT ![t] = "done", ![dequeue_task] = "scheduled"]
       ELSE pc' = [pc EXCEPT ![t] = "done"]

\* _process_next_task, run from the `finally` of t's _process_build_task
process_next_task(t) ==
    /\ dequeue
    /\ IF dequeue_task # None
       THEN /\ pc' = [pc EXCEPT ![t] = "done", ![dequeue_task] = "scheduled"]
            /\ UNCHANGED is_processing
       ELSE /\ is_processing' = FALSE
            /\ pc' = [pc EXCEPT ![t] = "done"]

\* the `finally` of t's _process_build_task
process_build_task_finally(t) ==
    /\ orch_current' = None
    /\ result' = [result EXCEPT ![t] = NoResult]
    /\ artifact' = None
    /\ process_next_task(t)

\* _notify_result: one more result callback returns; after the last one the
\* `finally` of _process_build_task runs
NotifyResult(t) ==
    /\ pc[t] = "notify"
    /\ delivered' = [delivered EXCEPT ![t] = delivered[t] + 1]
    /\ IF delivered'[t] < NumResultCallbacks
       THEN UNCHANGED <<queue_vars, orch_vars, pc, result, artifact>>
       ELSE process_build_task_finally(t)
    /\ UNCHANGED <<task_vars, now, exec_vars, proc, returncode, ret, qcancelled>>
    /\ UNCHANGED lock_vars
    /\ UNCHANGED unit_vars

Next ==
    \/ \E p \in Priorities : Submit(p)
    \/ \E t \in Tasks : CancelBuildTask(t)
    \/ CancelBuildCurrent
    \/ ClearQueue
    \/ \E t \in Tasks : Begin(t)
    \/ \E t \in Tasks : Prepare(t)
    \/ \E t \in Tasks : Launch(t)
    \/ \E t \in Tasks : ProcExit(t)
    \/ \E t \in Tasks : ReadLoopEnd(t)
    \/ \E t \in Tasks : ReadError(t)
    \/ \E t \in Tasks : NotifyResult(t)

Spec == Init /\ [][Next]_vars

\* the event loop runs every ready coroutine, callbacks return, and every
\* build process eventually exits
Fairness ==
    \A t \in Tasks :
        /\ WF_vars(Begin(t))
        /\ WF_vars(Prepare(t))
        /\ WF_vars(Launch(t))
        /\ WF_vars(ProcExit(t))
        /\ WF_vars(ReadLoopEnd(t))
        /\ WF_vars(NotifyResult(t))

LiveSpec == Init /\ [][Next]_vars /\ Fairness

(* --------------- the queue driven directly by its callers -------------- *)
other_vars == <<return_code, orch_vars, exec_vars, run_vars>>

\* enqueue(task, priority) of a freshly created BuildTask
QEnqueue(p) ==
    /\ NextId \in Tasks
    /\ total_enqueued < MaxEnqueued
    /\ \E at \in now..MaxClock : enqueue(NextId, p, at)
    /\ ret' = [op |-> "enqueue", status |-> "True", task |-> NextId, position |-> None]
    /\ UNCHANGED <<error_message, other_vars, qcancelled>>
    /\ UNCHANGED lock_vars
    /\ UNCHANGED unit_vars

\* enqueue(task, priority) of a BuildTask that was handed to the queue before
QEnqueueTask(t) ==
    /\ t \in Created
    /\ total_enqueued < MaxEnqueued
    /\ IF enqueue_accepts(t)
       THEN /\ \E p \in Priorities, at \in now..MaxClock : enqueue(t, p, at)
            /\ ret' = [op |-> "enqueue", status |-> "True", task |-> t, position |-> None]
       ELSE /\ ret' = [op |-> "enqueue", status |-> "False", task |-> t, position |-> None]
            /\ UNCHANGED <<status, queue_vars, now>>
    /\ UNCHANGED <<error_message, other_vars, qcancelled>>
    /\ UNCHANGED lock_vars
    /\ UNCHANGED unit_vars

\* dequeue()
QDequeue ==
    /\ Created # {}
    /\ dequeue
    /\ ret' = [op |-> "dequeue", status |-> "none", task |-> dequeue_task, position |-> None]
    /\ UNCHANGED <<task_vars, now, other_vars, qcancelled>>
    /\ UNCHANGED lock_vars
    /\ UNCHANGED unit_vars

\* cancel_task(task_id)
QCancelTask(t) ==
    /\ t \in Created
    /\ cancel_task(t)
    /\ ret' = [op |-> "cancel_task",
               status |-> IF cancel_task_found(t) THEN "True" ELSE "False",
               task |-> None, position |-> None]
    /\ UNCHANGED <<now, other_vars>>
    /\ UNCHANGED lock_vars
    /\ UNCHANGED unit_vars

\* clear_queue()
QClearQueue ==
    /\ Created # {}
    /\ clear_queue
    /\ ret' = [op |-> "clear_queue", status |-> "none", task |-> None,
               position |-> Len(heap)]
    /\ UNCHANGED <<now, other_vars, qcancelled>>
    /\ UNCHANGED lock_vars
    /\ UNCHANGED unit_vars

\* ThreadSafeTaskQueue(logger, persistence_file) after a restart: the
\* constructor runs _load_persisted_tasks; create_task schedules the rebuild
\* when an event loop is running and raises (caught, logged) when none is
QReload ==
    /\ file.exists
    /\ lookup' = load_persisted_tasks(file)
    /\ heap' = <<>>
    /\ total_enqueued' = file.total_enqueued
    /\ total_dequeued' = file.total_dequeued
    /\ status' = [t \in Tasks |->
                    IF \E i \in 1..Len(file.tasks) : file.tasks[i].id = t
                    THEN file.tasks[CHOOSE i \in 1..Len(file.tasks) :
                                        file.tasks[i].id = t].status
                    ELSE status[t]]
    /\ \E running_loop \in BOOLEAN : rebuild_pending' = running_loop
    /\ ret' = [op |-> "reload", status |-> "none", task |-> None, position |-> None]
    /\ UNCHANGED <<file, error_message, now, other_vars, owed, qcancelled>>
    /\ UNCHANGED lock_vars
    /\ UNCHANGED unit_vars

\* the scheduled _rebuild_priority_queue coroutine runs
QRebuild ==
    /\ rebuild_pending
    /\ heap' = rebuild_priority_queue(lookup)
    /\ rebuild_pending' = FALSE
    /\ UNCHANGED <<task_vars, lookup, total_enqueued, total_dequeued, file, now,
                   other_vars, ret, owed, qcancelled>>
    /\ UNCHANGED lock_vars
    /\ UNCHANGED unit_vars

FifoNext ==
    \/ \E p \in Priorities : QEnqueue(p)
    \/ QDequeue

\* the queue under enqueue and dequeue only
FifoSpec == Init /\ [][FifoNext]_vars

QueueNext ==
    \/ \E p \in Priorities : QEnqueue(p)
    \/ QDequeue
    \/ \E t \in Tasks : QEnqueueTask(t)
    \/ \E t \in Tasks : QCancelTask(t)
    \/ QClearQueue

\* the queue under all its mutating operations
QueueSpec == Init /\ [][QueueNext]_vars

\* peek()
QPeek ==
    /\ Created # {}
    /\ heap' = IF heap = <<>> THEN heap ELSE peek_heap
    /\ ret' = [op |-> "peek", status |-> "none", task |-> peek_task, position |-> None]
    /\ UNCHANGED <<task_vars, lookup, total_enqueued, total_dequeued, file,
                   rebuild_pending, owed, now, other_vars, qcancelled>>
    /\ UNCHANGED lock_vars
    /\ UNCHANGED unit_vars

\* enqueue(task, priority) of a task that has left the queue (dequeued or
\* cancelled): accepted
QEnqueueAgain(t) ==
    /\ t \in Created
    /\ enqueue_accepts(t)
    /\ total_enqueued < MaxPeekEnqueued
    /\ \E p \in Priorities, at \in now..MaxClock : enqueue(t, p, at)
    /\ ret' = [op |-> "enqueue", status |-> "True", task |-> t, position |-> None]
    /\ UNCHANGED <<error_message, other_vars, qcancelled>>
    /\ UNCHANGED lock_vars
    /\ UNCHANGED unit_vars

PeekNext ==
    \/ QueueNext
    \/ \E t \in Tasks : QEnqueueAgain(t)
    \/ QPeek

\* the queue under its mutating operations and peek
PeekSpec == Init /\ [][PeekNext]_vars

ReloadNext ==
    \/ QueueNext
    \/ QReload
    \/ QRebuild

\* the queue under its mutating operations and restarts of the process
ReloadSpec == Init /\ [][ReloadNext]_vars

(* ------- the queue called by concurrent coroutines, await by await ------ *)
QueueOps == {"enqueue", "dequeue", "cancel_task", "clear_queue"}

\* mutant: the operations do not wait for the lock
lock_ignored == TRUE

\* `async with self._lock` can be entered
lock_free == lock = None

\* a caller enters enqueue, dequeue, cancel_task or clear_queue and acquires
\* the lock
LEnter(c) ==
    /\ qop[c] = Idle
    /\ lock_free
    /\ lock' = c
    /\ \E op \in QueueOps :
          qop' = [qop EXCEPT ![c] = [op |-> op, step |-> "locked", task |-> None]]
    /\ UNCHANGED <<task_vars, queue_vars, now, other_vars, ret, qcancelled>>
    /\ UNCHANGED unit_vars

\* the operation returns: the lock is released
lock_release(c, name, value, t) ==
    /\ lock' = None
    /\ qop' = [qop EXCEPT ![c] = Idle]
    /\ ret' = [op |-> name, status |-> value, task |-> t, position |-> None]

\* enqueue inside the lock, up to `await self._persist_queue()`
LEnqueue(c) ==
    /\ qop[c].op = "enqueue" /\ qop[c].step = "locked"
    /\ NextId \in Tasks
    /\ \E p \in Priorities, at \in now..MaxClock : enqueue_change(NextId, p, at)
    /\ qop' = [qop EXCEPT ![c] = [@ EXCEPT !.step = "changed", !.task = NextId]]
    /\ UNCHANGED <<error_message, file, lock, other_vars, ret, qcancelled>>
    /\ UNCHANGED unit_vars

\* dequeue inside the lock: returns None on an empty queue, else runs up to
\* `await self._persist_queue()`
LDequeue(c) ==
    /\ qop[c].op = "dequeue" /\ qop[c].step = "locked"
    /\ IF heap = <<>>
       THEN /\ lock_release(c, "dequeue", "none", None)
            /\ UNCHANGED queue_vars
       ELSE /\ dequeue_change
            /\ qop' = [qop EXCEPT ![c] = [@ EXCEPT !.step = "changed", !.task = dequeue_task]]
            /\ UNCHANGED <<file, lock, ret>>
    /\ UNCHANGED <<task_vars, now, other_vars, qcancelled>>
    /\ UNCHANGED unit_vars

\* cancel_task inside the lock: returns False for an id it does not find,
\* else runs up to `await self._persist_queue()`
LCancelTask(c) ==
    /\ qop[c].op = "cancel_task" /\ qop[c].step = "locked"
    /\ \E t \in Created :
          IF cancel_task_found(t)
          THEN /\ cancel_task_change(t)
               /\ qop' = [qop EXCEPT ![c] = [@ EXCEPT !.step = "changed", !.task = t]]
               /\ UNCHANGED <<file, lock, ret>>
          ELSE /\ lock_release(c, "cancel_task", "False", None)
               /\ UNCHANGED <<status, error_message, queue_vars, qcancelled>>
    /\ UNCHANGED <<now, other_vars>>
    /\ UNCHANGED unit_vars

\* clear_queue inside the lock, up to `await self._persist_queue()`
LClearQueue(c) ==
    /\ qop[c].op = "clear_queue" /\ qop[c].step = "locked"
    /\ clear_queue_change
    /\ qop' = [qop EXCEPT ![c] = [@ EXCEPT !.step = "changed"]]
    /\ UNCHANGED <<file, lock, now, other_vars, ret, qcancelled>>
    /\ UNCHANGED unit_vars

\* _persist_queue writes the snapshot, the operation returns and the lock is
\* released
LPersist(c) ==
    /\ qop[c].step = "changed"
    /\ file' = persist(lookup, status, total_enqueued, total_dequeued)
    /\ lock_release(c, qop[c].op, "True", qop[c].task)
    /\ UNCHANGED <<task_vars, heap, lookup, total_enqueued, total_dequeued,
                   rebuild_pending, now, other_vars, owed, qcancelled>>
    /\ UNCHANGED unit_vars

LockNext ==
    \/ \E c \in Callers : LEnter(c)
    \/ \E c \in Callers : LEnqueue(c)
    \/ \E c \in Callers : LDequeue(c)
    \/ \E c \in Callers : LCancelTask(c)
    \/ \E c \in Callers : LClearQueue(c)
    \/ \E c \in Callers : LPersist(c)

\* the queue under concurrent callers
LockSpec == Init /\ [][LockNext]_vars

(* ------------------ requests with arbitrary arguments ------------------ *)
\* what submit_build_request does up to its busy test, over all the
\* modelled arguments and both answers of validate_path on the roots
SubmitOutcomes ==
    {submit_outcome(branch, strategy, arg3, roots_pass) :
        branch \in Branches, strategy \in StrategyInputs, arg3 \in Arg3Inputs,
        roots_pass \in BOOLEAN}

\* submit_build_request(branch, strategy, arg3, priority), for arguments on
\* which it gets as far as outcome
SubmitRequest(outcome, p) ==
    IF outcome # "accepted"
    THEN /\ ret' = [op |-> "submit", status |-> outcome, task |-> None, position |-> None]
         /\ UNCHANGED <<model_vars, now, unit_vars>>
    ELSE Submit(p)

RequestNext ==
    \/ \E outcome \in SubmitOutcomes, p \in Priorities : SubmitRequest(outcome, p)
    \/ \E t \in Tasks : Begin(t)
    \/ \E t \in Tasks : Prepare(t)
    \/ \E t \in Tasks : Launch(t)
    \/ \E t \in Tasks : ProcExit(t)
    \/ \E t \in Tasks : ReadLoopEnd(t)
    \/ \E t \in Tasks : NotifyResult(t)

\* the orchestrator under requests with valid and invalid arguments
RequestSpec == Init /\ [][RequestNext]_vars

(* ---------------- the executor driven directly by its callers ---------- *)
\* a BuildTask is created and, for one that went through the queue, QUEUED
XCreate(st) ==
    /\ NextId \in Tasks
    /\ status' = [status EXCEPT ![NextId] = st]
    /\ ret' = [op |-> "create", status |-> "none", task |-> NextId, position |-> None]
    /\ UNCHANGED <<return_code, error_message, queue_vars, lock_vars, now, orch_vars,
                   exec_vars, run_vars, qcancelled, unit_vars>>

\* execute_task(t) is called
XExecute(t) ==
    /\ t \in Created
    /\ pc[t] = "none"
    /\ execute_task_enter(t)
    /\ ret' = [op |-> "execute_task",
               status |-> IF execute_task_rejects THEN "raise" ELSE "none",
               task |-> t, position |-> None]
    /\ UNCHANGED <<task_vars, queue_vars, lock_vars, now, orch_vars, proc, returncode,
                   artifact, delivered, qcancelled, unit_vars>>

\* cancel_current_task() is called
XCancelCurrent ==
    /\ Created # {}
    /\ cancel_current_task
    /\ ret' = [op |-> "cancel_current_task",
               status |-> IF cancel_current_task_accepts THEN "True" ELSE "False",
               task |-> None, position |-> None]
    /\ UNCHANGED <<task_vars, queue_vars, lock_vars, now, orch_vars, ex_task, ex_process,
                   is_executing, pc, artifact, result, delivered, qcancelled, unit_vars>>

ExecNext ==
    \/ \E st \in {"PENDING", "QUEUED"} : XCreate(st)
    \/ \E t \in Tasks : XExecute(t)
    \/ XCancelCurrent
    \/ \E t \in Tasks : Launch(t)
    \/ \E t \in Tasks : ProcExit(t)
    \/ \E t \in Tasks : ReadLoopEnd(t)
    \/ \E t \in Tasks : ReadError(t)

\* the executor under execute_task calls made at any time
ExecSpec == Init /\ [][ExecNext]_vars

(* ------------- a BuildTask whose methods are called directly ----------- *)
\* what a method call on the task returned: "raise" for a ValueError
method_ret(name, raised) ==
    [op |-> name, status |-> IF raised THEN "raise" ELSE "none",
     task |-> None, position |-> None]

\* `task.status = TaskStatus.QUEUED`, as enqueue does
TQueued ==
    /\ bt' = [bt EXCEPT !.status = "QUEUED"]
    /\ ret' = method_ret("enqueue", FALSE)
    /\ UNCHANGED <<model_vars, now, reader, cbs>>

\* task.start_execution(process_id)
TStart(process_id) ==
    /\ \E at \in now..MaxClock :
         LET call == BuildTask_start_execution(bt, process_id, at) IN
         /\ bt' = call.task
         /\ ret' = method_ret("start_execution", call.raised)
         /\ now' = IF call.raised THEN now ELSE at
    /\ UNCHANGED <<model_vars, reader, cbs>>

\* task.complete_execution(return_code, error_message)
TComplete(rc, msg) ==
    /\ \E at \in now..MaxClock :
         LET call == BuildTask_complete_execution(bt, rc, msg, at) IN
         /\ bt' = call.task
         /\ ret' = method_ret("complete_execution", call.raised)
         /\ now' = IF call.raised THEN now ELSE at
    /\ UNCHANGED <<model_vars, reader, cbs>>

\* task.cancel_execution(error_message)
TCancel(msg) ==
    /\ \E at \in now..MaxClock :
         LET call == BuildTask_cancel_execution(bt, msg, at) IN
         /\ bt' = call.task
         /\ ret' = method_ret("cancel_execution", call.raised)
         /\ now' = IF call.raised THEN now ELSE at
    /\ UNCHANGED <<model_vars, reader, cbs>>

\* arg3 arguments of the constructor: left out, empty, non-empty
ConstructorArg3 == {NoArg3, "", "x"}

\* what a constructor call returned, with its arguments
constructor_ret(raised, branch, strategy, arg3) ==
    [op |-> "BuildTask", status |-> IF raised THEN "raise" ELSE "none",
     task |-> None, position |-> None,
     branch |-> branch, strategy |-> strategy, arg3 |-> arg3]

\* BuildTask(branch=..., strategy=..., arg3=...): __post_init__ raises, or a
\* new PENDING task takes the place of the one held
TConstruct(branch, strategy, arg3) ==
    /\ IF BuildTask_post_init(branch, strategy, arg3) # "ok"
       THEN /\ bt' = bt
            /\ ret' = constructor_ret(TRUE, branch, strategy, arg3)
       ELSE /\ bt' = [BuildTask EXCEPT !.branch = branch, !.strategy = strategy,
                                       !.arg3 = arg3]
            /\ ret' = constructor_ret(FALSE, branch, strategy, arg3)
    /\ UNCHANGED <<model_vars, now, reader, cbs>>

TaskNext ==
    \/ TQueued
    \/ \E process_id \in Pids : TStart(process_id)
    \/ \E rc \in ExitCodes, msg \in Messages : TComplete(rc, msg)
    \/ \E msg \in Messages : TCancel(msg)

\* one BuildTask under its execution methods
TaskSpec == Init /\ [][TaskNext]_vars

ConstructNext ==
    \/ \E branch \in Branches, strategy \in BuildStrategyValues, arg3 \in ConstructorArg3 :
          TConstruct(branch, strategy, arg3)
    \/ TQueued

\* BuildTask objects constructed from arbitrary arguments and handed to the
\* queue
ConstructSpec == Init /\ [][ConstructNext]_vars

(* --------------- the output of one build process, line by line --------- *)
\* readline() returns a non-empty line and the loop body handles it
RLine(line) ==
    /\ reader.task # None
    /\ reader.line_no < MaxLines
    /\ reader' = read_line(reader, line)
    /\ UNCHANGED <<model_vars, now, ret, bt, cbs>>

\* execute_task(t) enters _run_build_process: the first execution, or the
\* next one after the loop of the one before has ended
RStart(t) ==
    /\ reader.task = None \/ (reader.line_no > 0 /\ t # reader.task)
    /\ reader' = run_build_process(t)
    /\ UNCHANGED <<model_vars, now, ret, bt, cbs>>

ReaderNext ==
    \/ \E line \in Lines : RLine(line)
    \/ \E t \in Tasks : RStart(t)

\* the read loop of _run_build_process on arbitrary output
ReaderSpec == Init /\ [][ReaderNext]_vars

(* --------------------- the plugin stops and is loaded again ------------ *)
\* the plugin process ends (a crash, or a reload of the plugin) and
\* UnrealBuilderRefactored.__init__ runs again inside the event loop: the
\* coroutines of the old instance are gone, the queue is constructed from the
\* persistence file, the executor and the orchestrator start idle. The
\* rebuild coroutine the queue's constructor scheduled is the first one the
\* event loop runs once __init__ has returned, ahead of every command
\* handler, and is part of this step.
PRestart ==
    /\ Created # {}
    /\ IF file.exists
       THEN /\ lookup' = load_persisted_tasks(file)
            /\ total_enqueued' = file.total_enqueued
            /\ total_dequeued' = file.total_dequeued
            /\ status' = [t \in Tasks |->
                            IF \E i \in 1..Len(file.tasks) : file.tasks[i].id = t
                            THEN file.tasks[CHOOSE i \in 1..Len(file.tasks) :
                                                file.tasks[i].id = t].status
                            ELSE status[t]]
       ELSE /\ lookup' = <<>>
            /\ total_enqueued' = 0
            /\ total_dequeued' = 0
            /\ UNCHANGED status
    /\ heap' = rebuild_priority_queue(lookup')
    /\ rebuild_pending' = FALSE
    /\ is_processing' = FALSE
    /\ orch_current' = None
    /\ ex_task' = None
    /\ ex_process' = None
    /\ is_executing' = FALSE
    /\ is_cancelled' = FALSE
    /\ returncode' = NoRC
    /\ pc' = [t \in Tasks |-> IF pc[t] \in {"none", "done"} THEN pc[t] ELSE "lost"]
    /\ result' = [t \in Tasks |-> NoResult]
    /\ artifact' = None
    /\ ret' = [op |-> "restart", status |-> "none", task |-> None, position |-> None]
    /\ UNCHANGED <<return_code, error_message, file, owed, now, proc, delivered, qcancelled>>
    /\ UNCHANGED lock_vars
    /\ UNCHANGED unit_vars

RestartNext ==
    \/ Next
    \/ PRestart

\* the orchestrator under requests, cancellations and restarts of the plugin
RestartSpec == Init /\ [][RestartNext]_vars

\* RestartSpec with the event loop running every ready coroutine, callbacks
\* returning and every build process exiting
LiveRestartSpec == Init /\ [][RestartNext]_vars /\ Fairness

(* -------------------- callbacks that return or raise ------------------- *)
CallbackIds == 1..MaxCallbacks

\* add_progress_callback / add_result_callback on the orchestrator and
\* add_progress_callback on the executor, called while the plugin sets up
AddCallback(kind, cb) ==
    /\ Created = {}
    /\ Len(cbs.registry["progress"]) + Len(cbs.registry["result"])
          + Len(cbs.registry["executor_progress"]) < MaxCallbacks
    /\ \A i \in 1..Len(cbs.registry[kind]) : cbs.registry[kind][i] # cb
    /\ cbs' = [cbs EXCEPT !.registry[kind] = Append(@, cb)]
    /\ UNCHANGED <<model_vars, now, ret, bt, reader>>

\* mutant: the notify loop without its try/except
notify_stops_on_raise(raises) == ~raises

\* the `try: await callback(...) except Exception` of the three notify
\* loops: the loop goes on to the next callback
notify_continues(raises) == TRUE

\* the notify loop for this event has invoked its last callback
notify_done(kind, t) ==
    \/ cbs.registry[kind] = <<>>
    \/ /\ cbs.event = [kind |-> kind, task |-> t]
       /\ Len(cbs.invoked) >= Len(cbs.registry[kind])

\* callbacks invoked so far for this event
notify_invoked(kind, t) ==
    IF cbs.event = [kind |-> kind, task |-> t] THEN cbs.invoked ELSE <<>>

\* one pass of `for callback in self._..._callbacks`: the next callback of
\* the list is awaited and returns or raises
notify_callback(kind, t, raises) ==
    LET fresh == cbs.event # [kind |-> kind, task |-> t]
        i == Len(notify_invoked(kind, t)) + 1
    IN  cbs' = [cbs EXCEPT !.event = [kind |-> kind, task |-> t],
                           !.invoked = Append(notify_invoked(kind, t), cbs.registry[kind][i]),
                           !.raised = Append(IF fresh THEN <<>> ELSE cbs.raised, raises)]

\* the loop is left after this pass: the list is exhausted, or the pass let
\* the exception out
notify_leaves(kind, t, raises) ==
    \/ Len(notify_invoked(kind, t)) + 1 >= Len(cbs.registry[kind])
    \/ ~notify_continues(raises)

\* submit_build_request with valid input and the default priority
CbSubmit ==
    /\ Cardinality(Created) < MaxNotified
    /\ Submit(NORMAL)

\* _process_build_task awaits _notify_progress("preparation"): one callback
CbProgress(t, raises) ==
    /\ pc[t] = "prep"
    /\ ~notify_done("progress", t)
    /\ notify_callback("progress", t, raises)
    /\ IF notify_continues(raises)
       THEN UNCHANGED <<pc, result>>
       ELSE /\ pc' = [pc EXCEPT ![t] = "notify"]
            /\ result' = [result EXCEPT ![t] = FailureResult("callback failed")]
    /\ UNCHANGED <<task_vars, queue_vars, lock_vars, now, orch_vars, exec_vars, proc,
                   returncode, artifact, delivered, ret, qcancelled, bt, reader>>

\* _notify_progress has returned; the disk check and execute_task follow
CbPrepare(t) ==
    /\ notify_done("progress", t)
    /\ Prepare(t)

\* _run_build_process awaits _notify_progress for a stage: one callback
CbExecutorProgress(t, raises) ==
    /\ pc[t] = "reading"
    /\ ~notify_done("executor_progress", t)
    /\ notify_callback("executor_progress", t, raises)
    /\ IF notify_continues(raises)
       THEN UNCHANGED <<task_vars, exec_vars, returncode, pc, result>>
       ELSE executor_except(t, status[t], "Process execution failed")
    /\ UNCHANGED <<queue_vars, lock_vars, now, orch_vars, proc, artifact, delivered,
                   ret, qcancelled, bt, reader>>

\* the read loop ends; it is not inside _notify_progress
CbReadLoopEnd(t) ==
    /\ notify_invoked("executor_progress", t) = <<>> \/ notify_done("executor_progress", t)
    /\ ReadLoopEnd(t)

\* _process_build_task awaits _notify_result: one callback, and after the
\* last one the `finally`
CbResult(t, raises) ==
    /\ pc[t] = "notify"
    /\ IF cbs.registry["result"] = <<>>
       THEN /\ process_build_task_finally(t)
            /\ UNCHANGED <<cbs, delivered>>
       ELSE /\ notify_callback("result", t, raises)
            /\ delivered' = [delivered EXCEPT ![t] = delivered[t] + 1]
            /\ IF notify_leaves("result", t, raises)
               THEN process_build_task_finally(t)
               ELSE UNCHANGED <<queue_vars, orch_vars, pc, result, artifact>>
    /\ UNCHANGED <<task_vars, lock_vars, now, exec_vars, proc, returncode, ret,
                   qcancelled, bt, reader>>

CallbackNext ==
    \/ \E kind \in Kinds, cb \in CallbackIds : AddCallback(kind, cb)
    \/ CbSubmit
    \/ \E t \in Tasks : Begin(t)
    \/ \E t \in Tasks, raises \in BOOLEAN : CbProgress(t, raises)
    \/ \E t \in Tasks : CbPrepare(t)
    \/ \E t \in Tasks : Launch(t)
    \/ \E t \in Tasks : ProcExit(t)
    \/ \E t \in Tasks, raises \in BOOLEAN : CbExecutorProgress(t, raises)
    \/ \E t \in Tasks : CbReadLoopEnd(t)
    \/ \E t \in Tasks, raises \in BOOLEAN : CbResult(t, raises)

\* the orchestrator with callbacks that return or raise
CallbackSpec == Init /\ [][CallbackNext]_vars

(* ------------------------------ claims --------------------------------- *)
Running == {t \in Tasks : proc[t] = "running"}

\* C1: at most one launched external build process has not yet exited.
C1_AtMostOneBuildProcess == Cardinality(Running) <= 1

\* C2: at most one BuildTask has status RUNNING.
C2_SingleRunningTask == Cardinality({t \in Tasks : status[t] = "RUNNING"}) <= 1

\* a second task is RUNNING after an earlier one ran to its end
C2_Witness ==
    \E t, u \in Tasks :
        /\ t # u
        /\ status[t] = "RUNNING"
        /\ status[u] \in {"COMPLETED", "FAILED"}
        /\ return_code[u] \in ExitCodes

\* the waiting task with the highest priority, the earliest enqueued among
\* equals (lk is in order of enqueue); None when nothing waits
FirstInOrder(lk) ==
    IF lk = <<>> THEN None
    ELSE lk[CHOOSE i \in 1..Len(lk) :
                /\ \A j \in 1..Len(lk) : lk[j].priority <= lk[i].priority
                /\ \A j \in 1..(i - 1) : lk[j].priority < lk[i].priority].id

\* C3: each dequeue returns the task with the highest priority present and,
\* among equal priorities, the one enqueued earliest.
C3_DequeueOrder == [][QDequeue => ret'.task = FirstInOrder(lookup)]_vars

\* C4: once cancel_task(id) has returned True, no dequeue returns that id.
C4_CancelledNeverDequeued == ret.op = "dequeue" => ret.task \notin qcancelled

\* C5: a task cancelled while waiting in the queue is never handed to the
\* executor and never has a build process launched for it.
C5_CancelledNeverExecuted ==
    \A t \in qcancelled : pc[t] = "none" /\ proc[t] = "none"

InHandling(t) == pc[t] \in {"prep", "launching", "reading", "notify"}

\* C6: processing of a task begins only when the handling of every task
\* begun before it has finished, its BuildResult delivered to every callback.
C6_SequentialProcessing ==
    /\ Cardinality({t \in Tasks : InHandling(t)}) <= 1
    /\ \A t \in Tasks : InHandling(t) =>
          \A u \in Tasks \ {t} : pc[u] \in {"none", "done"}
    /\ \A t \in Tasks : pc[t] = "done" => delivered[t] = NumResultCallbacks

\* a task is being processed after another one's result has been delivered
C6_Witness ==
    \E t, u \in Tasks : pc[u] = "done" /\ delivered[u] = NumResultCallbacks /\ pc[t] = "prep"

\* C7: when the processing of a task ends, the current-task reference is
\* cleared and the next task is started or the busy flag cleared; the flag is
\* false whenever no task is processed or scheduled.
C7_BusyFlagNeverStuck ==
    /\ []((\A t \in Tasks : pc[t] \in {"none", "done"}) => ~is_processing)
    /\ [][\A t \in Tasks : (pc[t] # "done" /\ pc'[t] = "done") =>
              /\ orch_current' = None
              /\ \/ \E u \in Tasks : pc[u] = "none" /\ pc'[u] = "scheduled"
                 \/ ~is_processing' /\ heap = <<>>]_vars

\* processing ended by an exception and the flag was cleared
C7_Witness ==
    \E t \in Tasks :
        pc[t] = "done" /\ status[t] = "PENDING" /\ ~is_processing /\ orch_current = None

Rank(lk, t) ==
    LET i == IndexOf(lk, t)
    IN  1 + Cardinality({j \in 1..Len(lk) :
                          \/ lk[j].priority > lk[i].priority
                          \/ lk[j].priority = lk[i].priority /\ j < i})

\* C9: submit_build_request returns "started" exactly when the orchestrator
\* was idle, and then sets the busy flag and schedules the task; otherwise it
\* returns "queued" with the task's 1-based rank and starts nothing.
C9_SubmitStartedOrQueued ==
    [][(\E p \in Priorities : Submit(p)) =>
         IF ~is_processing
         THEN /\ ret'.status = "started"
              /\ is_processing'
              /\ pc'[ret'.task] = "scheduled"
              /\ lookup' = lookup
         ELSE /\ ret'.status = "queued"
              /\ ret'.task \in Ids(lookup')
              /\ ret'.position = Rank(lookup', ret'.task)
              /\ pc' = pc /\ proc' = proc /\ is_processing']_vars

\* a request queued behind another one: position 2
C9_Witness ==
    ret.op = "submit" /\ ret.status = "queued" /\ ret.position = 2 /\ Len(lookup) = 2

\* C10: exit code 0 and an artifact of at least the minimum size found: the
\* BuildResult delivered is a success carrying the BuildInfo.
C10_SuccessfulBuildResult ==
    \A t \in Tasks :
        (/\ pc[t] = "notify"
         /\ status[t] = "COMPLETED"
         /\ return_code[t] = 0
         /\ artifact # None
         /\ artifact >= min_size_threshold)
        => result[t].success /\ result[t].build_info = artifact

\* the task whose build process exited with code 0 and whose result is delivered
ExitedZero(t) ==
    pc[t] = "notify" /\ status[t] = "COMPLETED" /\ return_code[t] = 0

\* C11: exit code 0 and no artifact discoverable: the BuildResult delivered is
\* a failure whose reason is the no-artifacts reason.
C11_NoArtifactReason ==
    \A t \in Tasks :
        (ExitedZero(t) /\ artifact = None)
        => /\ ~result[t].success
           /\ result[t].error = "No build artifacts detected"

\* C12: exit code 0 and an artifact smaller than the minimum size: the
\* BuildResult delivered is a failure whose reason mentions the artifact size.
C12_TooSmallReason ==
    \A t \in Tasks :
        (ExitedZero(t) /\ artifact # None /\ artifact < min_size_threshold)
        => /\ ~result[t].success
           /\ result[t].error = "Build artifact too small"

Terminal == {"COMPLETED", "FAILED", "CANCELLED"}

\* C13: a task whose build process was launched has a terminal status by the
\* time its BuildResult is delivered, however it was started.
C13_LaunchedTaskEndsTerminal ==
    \A t \in Tasks :
        (pc[t] \in {"notify", "done"} /\ proc[t] # "none") => status[t] \in Terminal

\* C14: when the read loop ends for a RUNNING task, the task becomes
\* CANCELLED if the cancellation flag is set, otherwise COMPLETED for exit
\* code 0 and FAILED for any other, with the exit code recorded on the task.
C14_ReadLoopEndTransition ==
    [][\A t \in Tasks : ReadLoopEnd(t) =>
          /\ status[t] = "RUNNING"
          /\ IF is_cancelled
             THEN status'[t] = "CANCELLED"
             ELSE /\ return_code'[t] = returncode
                  /\ returncode = 0 => status'[t] = "COMPLETED"
                  /\ returncode # 0 => status'[t] = "FAILED"]_vars

\* a task ended FAILED with the process's non-zero exit code recorded
C14_Witness ==
    \E t \in Tasks :
        /\ pc[t] = "notify" /\ status[t] = "FAILED"
        /\ return_code[t] = 1 /\ error_message[t] = "Process exited with code"

\* C15: when the build process cannot be launched the task ends FAILED with
\* the launch error recorded as its error_message.
C15_LaunchFailureMarksFailed ==
    [][\A t \in Tasks : (Launch(t) /\ proc'[t] = "none") =>
          /\ status'[t] = "FAILED"
          /\ error_message'[t] = "Failed to start build process"]_vars

\* BuildResult.__post_init__ accepts the result
BuildResult_post_init(r) ==
    /\ r.success => r.build_info # None
    /\ ~r.success => r.error # "none"

\* what the exceptions raised during processing say
ExceptionTexts ==
    {"Executor is already running a task", "Failed to start build process",
     "Cannot start task with status", "Cannot complete task with status",
     "Process execution failed", "Path must be a non-empty string"}

\* C16: a BuildResult is built for every task processed and delivered to the
\* result callbacks before the completion path runs; after an exception it is
\* a failure carrying the exception text, and building it never raises.
C16_ResultAlwaysDelivered ==
    /\ [](\A t \in Tasks :
            /\ pc[t] = "notify" =>
                 result[t].built /\ BuildResult_post_init(result[t])
            /\ pc[t] = "done" => delivered[t] = NumResultCallbacks)
    /\ [][\A t \in Tasks :
            ((pc[t] \in {"prep", "launching"} /\ pc'[t] = "notify") \/ ReadError(t)) =>
               /\ ~result'[t].success
               /\ result'[t].error \in ExceptionTexts
               /\ delivered'[t] = 0]_vars

\* the executor raised while reading the output; the failure result with the
\* exception text is being delivered
C16_Witness ==
    \E t \in Tasks :
        /\ pc[t] = "notify" /\ status[t] = "FAILED"
        /\ result[t] = FailureResult("Process execution failed")

\* the ids successive dequeues return from a priority queue
RECURSIVE drain(_)
drain(h) ==
    IF h = <<>> THEN <<>>
    ELSE <<heappop(h).item.id>> \o drain(heappop(h).heap)

\* C17: a queue constructed from the persisted file, once its rebuild has
\* run, holds the same task ids with the same priorities, dequeues them in the
\* same order and has the same counters as the queue that wrote the file.
C17_PersistenceRoundTrip ==
    [][(QReload /\ ~rebuild_pending /\ Ids(lookup) \subseteq Ids(heap)) =>
          /\ Ids(lookup') = Ids(lookup)
          /\ \A i \in 1..Len(lookup) : \E j \in 1..Len(lookup') :
                /\ lookup'[j].id = lookup[i].id
                /\ lookup'[j].priority = lookup[i].priority
          /\ total_enqueued' = total_enqueued
          /\ total_dequeued' = total_dequeued
          /\ drain(rebuild_priority_queue(lookup')) = drain(heap)]_vars

\* the persisted snapshot lists the waiting tasks and the counters
SnapshotCurrent ==
    IF file.exists
    THEN file = persist(lookup, status, total_enqueued, total_dequeued)
    ELSE lookup = <<>> /\ total_enqueued = 0 /\ total_dequeued = 0

InQueueOp == {c \in Callers : qop[c] # Idle}

C19_DuplicateEnqueueRejected ==
    /\ [][\A t \in Tasks : (QEnqueueTask(t) /\ t \in Ids(lookup)) =>
             /\ ret'.status = "False"
             /\ heap' = heap /\ lookup' = lookup /\ file' = file
             /\ total_enqueued' = total_enqueued /\ total_dequeued' = total_dequeued
             /\ drain(heap') = drain(heap)]_vars
    /\ [](Cardinality(Ids(lookup)) = Len(lookup))
    /\ [](\A t \in Tasks : owed[t] >= 0)

\* enqueue has returned False for a task waiting with another one
C19_Witness ==
    /\ ret.op = "enqueue" /\ ret.status = "False"
    /\ ret.task \in Ids(lookup) /\ Len(lookup) = 2 /\ Len(heap) = 2

\* C20: when cancel_task(id) returns True, get_task_position(id) is None right
\* afterwards, and the positions of the tasks still queued are pairwise
\* different and are exactly 1 .. (number of tasks still queued).
C20_CancelLeavesContiguousPositions ==
    [][\A t \in Tasks : (QCancelTask(t) /\ cancel_task_found(t)) =>
          /\ ret'.status = "True"
          /\ get_task_position(lookup', t) = None
          /\ Len(lookup') = Len(lookup) - 1
          /\ {get_task_position(lookup', u) : u \in Ids(lookup')} = 1..Len(lookup')
          /\ \A u, v \in Ids(lookup') :
                get_task_position(lookup', u) = get_task_position(lookup', v) => u = v]_vars

\* cancel_task has just returned True for a task that was neither first nor
\* last among three queued ones; two tasks are still queued
C20_Witness ==
    /\ ret.op = "cancel_task" /\ ret.status = "True"
    /\ Len(lookup) = 2 /\ Len(heap) = 3
    /\ \E t \in qcancelled :
          /\ t \notin Ids(lookup)
          /\ Cardinality(Ids(heap)) = 3 /\ get_task_position(heap, t) = 2

\* place of task t among the ids successive dequeues return (None: never)
DequeueIndex(t) ==
    LET order == drain(heap)
    IN  IF \E i \in 1..Len(order) : order[i] = t
        THEN CHOOSE i \in 1..Len(order) :
                order[i] = t /\ \A j \in 1..(i - 1) : order[j] # t
        ELSE None

\* C21: get_task_position(id) = 1 exactly for the task the next dequeue
\* returns, and of two queued tasks the one with the smaller position is
\* dequeued earlier.
C21_PositionMatchesDequeueOrder ==
    /\ \A t \in Created : (get_task_position(lookup, t) = 1) <=> (dequeue_task = t)
    /\ \A t, u \in Ids(lookup) :
          get_task_position(lookup, t) < get_task_position(lookup, u)
             => /\ DequeueIndex(t) # None /\ DequeueIndex(u) # None
                /\ DequeueIndex(t) < DequeueIndex(u)

\* C22: start_execution raises unless the status is QUEUED,
\* complete_execution unless it is RUNNING, cancel_execution unless it is
\* QUEUED or RUNNING; a call that raises leaves status, started_at,
\* completed_at, process_id, return_code and error_message as they were, and
\* a call that does not raise makes the transition.
C22_MethodsRejectWrongStatus ==
    [][/\ (\E process_id \in Pids : TStart(process_id)) =>
            /\ (ret'.status = "raise") <=> (bt.status # "QUEUED")
            /\ ret'.status = "raise" => bt' = bt
            /\ ret'.status # "raise" => bt'.status = "RUNNING"
       /\ (\E rc \in ExitCodes, msg \in Messages : TComplete(rc, msg)) =>
            /\ (ret'.status = "raise") <=> (bt.status # "RUNNING")
            /\ ret'.status = "raise" => bt' = bt
            /\ ret'.status # "raise" => bt'.status \in {"COMPLETED", "FAILED"}
       /\ (\E msg \in Messages : TCancel(msg)) =>
            /\ (ret'.status = "raise") <=> (bt.status \notin {"QUEUED", "RUNNING"})
            /\ ret'.status = "raise" => bt' = bt
            /\ ret'.status # "raise" => bt'.status = "CANCELLED"]_vars

\* cancel_execution has raised on a task that had run and failed; its fields
\* are those the run left
C22_Witness ==
    /\ ret.op = "cancel_execution" /\ ret.status = "raise"
    /\ bt.status = "FAILED" /\ bt.return_code = 1 /\ bt.process_id # None
    /\ bt.started_at # NoTime /\ bt.completed_at # NoTime
    /\ bt.error_message = "Build failed"

\* how far along PENDING -> QUEUED -> RUNNING -> terminal a status is
Stage(st) ==
    IF st = "none" THEN 0
    ELSE IF st = "PENDING" THEN 1
    ELSE IF st = "QUEUED" THEN 2
    ELSE IF st = "RUNNING" THEN 3
    ELSE 4

\* C23: the status of a task never returns to an earlier stage of
\* PENDING -> QUEUED -> RUNNING -> {COMPLETED, FAILED, CANCELLED} and never
\* leaves a terminal status.
C23_StatusOnlyMovesForward ==
    [][\A t \in Tasks :
          /\ Stage(status'[t]) >= Stage(status[t])
          /\ status[t] \in Terminal => status'[t] = status[t]]_vars

\* C24: execute_task called while the executor is executing raises at once,
\* launches no process and leaves the executor's current task, current
\* process, executing flag and cancellation flag, and the status of the
\* executing task and of the task passed in, unchanged.
C24_ExecuteWhileBusyRaises ==
    [][\A t \in Tasks : (XExecute(t) /\ is_executing) =>
          /\ ret'.status = "raise"
          /\ proc' = proc
          /\ ex_task' = ex_task /\ ex_process' = ex_process
          /\ is_executing' = is_executing /\ is_cancelled' = is_cancelled
          /\ ex_task # t
          /\ status'[t] = status[t] /\ status'[ex_task] = status[ex_task]
          /\ pc'[ex_task] = pc[ex_task]]_vars

\* execute_task has raised for a second task while the first one's build
\* process is running
C24_Witness ==
    /\ ret.op = "execute_task" /\ ret.status = "raise"
    /\ is_executing /\ ex_task # None /\ ex_task # ret.task
    /\ proc[ex_task] = "running" /\ status[ex_task] = "RUNNING"
    /\ proc[ret.task] = "none" /\ status[ret.task] = "QUEUED"

\* C25: cancel_build without a task id while the executor is not executing
\* (also while the orchestrator holds a current task whose execution has not
\* begun) returns "no_task" and changes nothing in the orchestrator, the
\* executor, the queue or any task.
C25_CancelWithoutExecutionIsNoTask ==
    [][(CancelBuildCurrent /\ ~is_executing) =>
          /\ ret'.status = "no_task"
          /\ UNCHANGED <<orch_vars, exec_vars, queue_vars, task_vars, run_vars,
                         qcancelled>>]_vars

\* cancel_build has returned "no_task" while the orchestrator holds a current
\* task that has not entered the executor, with another task waiting
C25_Witness ==
    /\ ret.op = "cancel_build" /\ ret.status = "no_task"
    /\ orch_current # None /\ pc[orch_current] = "prep"
    /\ ~is_executing /\ Len(lookup) >= 1

InvalidRequest(branch, strategy, arg3) ==
    \/ lower(strategy) \notin BuildStrategyValues
    \/ lower(strategy) = "special" /\ arg3 = ""
    \/ \A i \in 1..Len(branch) : branch[i] = " "
    \/ \E i \in 1..Len(branch) : branch[i] \in {"/", "\\", ":", "*", "?"}
    \/ ContainsDotDot(branch)

\* C27: a submit_build_request that fails validation, or whose path
\* resolution raises a security error, raises to the submitter and changes
\* nothing: no task is created or enqueued, no processing is started, and
\* the busy flag, the current task and the queue are as before.
C27_RejectedRequestChangesNothing ==
    /\ [](\A branch \in Branches, strategy \in StrategyInputs, arg3 \in Arg3Inputs,
             roots_pass \in BOOLEAN :
             (InvalidRequest(branch, strategy, arg3) \/ ~get_branch_paths(branch, roots_pass))
                => submit_outcome(branch, strategy, arg3, roots_pass)
                      \in {"ValidationError", "ValueError", "SecurityError"})
    /\ [][(/\ ret' # ret
           /\ ret'.op = "submit"
           /\ ret'.status \in {"ValidationError", "ValueError", "SecurityError"})
          => UNCHANGED <<task_vars, queue_vars, orch_vars, exec_vars, run_vars>>]_vars

\* a request was rejected with a security error while a task is running and
\* another one waits in the queue
C27_Witness ==
    /\ ret.op = "submit" /\ ret.status = "SecurityError"
    /\ is_processing /\ orch_current # None /\ Len(lookup) = 1
    /\ \E t \in Tasks : status[t] = "RUNNING"

\* C28: clear_queue marks every waiting task CANCELLED, leaves the queue
\* empty (size 0, dequeue returns None, no task has a position) and returns
\* the number of tasks it cancelled and removed.
C28_ClearQueueCancelsAndCounts ==
    [][QClearQueue =>
          /\ \A t \in Ids(lookup) : status'[t] = "CANCELLED"
          /\ Len(heap') = 0
          /\ (IF heap' = <<>> THEN None ELSE heappop(heap').item.id) = None
          /\ \A t \in Created : get_task_position(lookup', t) = None
          /\ ret'.position =
                Cardinality({t \in Tasks : status[t] # "CANCELLED" /\ status'[t] = "CANCELLED"})]_vars

\* the entries of a PriorityQueue, each with the number of times it occurs
Entries(h) ==
    [e \in {h[i] : i \in 1..Len(h)} |-> Cardinality({i \in 1..Len(h) : h[i] = e})]

\* C29: peek returns the task an immediately following dequeue returns (None
\* on an empty queue) and changes nothing: the entries of the queue, the
\* order in which they are dequeued, the counters, the task statuses and the
\* persisted snapshot are the same after peek as before.
C29_PeekIsReadOnly ==
    [][QPeek =>
          /\ ret'.task = dequeue_task
          /\ ret'.task = (IF heap' = <<>> THEN None ELSE heappop(heap').item.id)
          /\ Entries(heap') = Entries(heap)
          /\ drain(heap') = drain(heap)
          /\ lookup' = lookup /\ file' = file /\ status' = status
          /\ total_enqueued' = total_enqueued /\ total_dequeued' = total_dequeued]_vars

\* C30: within one execution the executor emits at most one ProgressUpdate
\* per stage trigger, and it emits it on the first line the trigger occurs
\* in; later lines with the same trigger emit nothing for it.
C30_OneUpdateOnFirstLine ==
    \A trigger \in Triggers :
        /\ Len(reader.sent[trigger]) <= 1
        /\ reader.sent[trigger] # <<>> => reader.sent[trigger][1] = reader.seen[trigger]

\* the callbacks of the list the event being notified goes to
EventCallbacks == IF cbs.event = NoEvent THEN <<>> ELSE cbs.registry[cbs.event.kind]

\* C31: progress and result callbacks are invoked in registration order; a
\* callback that raises keeps none of the remaining callbacks from being
\* invoked for the event and changes neither the busy flag, the current task
\* nor the completion path.
C31_RaisingCallbackIsSkipped ==
    /\ [](cbs.invoked = SubSeq(EventCallbacks, 1, Len(cbs.invoked)))
    /\ [][\A t \in Tasks :
            /\ (pc[t] = "prep" /\ pc'[t] # "prep") =>
                  /\ notify_invoked("progress", t) = cbs.registry["progress"]
                  /\ pc'[t] = "launching"
            /\ (pc[t] = "reading" /\ pc'[t] # "reading") =>
                  notify_invoked("executor_progress", t)
                      \in {<<>>, cbs.registry["executor_progress"]}
            /\ (pc[t] = "notify" /\ pc'[t] # "notify") =>
                  /\ cbs'.event = [kind |-> "result", task |-> t]
                        => cbs'.invoked = cbs.registry["result"]
                  /\ cbs'.event # [kind |-> "result", task |-> t]
                        => cbs.registry["result"] = <<>>
                  /\ orch_current' = None
                  /\ pc'[t] = "done"
                  /\ \/ \E u \in Tasks : pc[u] = "none" /\ pc'[u] = "scheduled"
                     \/ ~is_processing' /\ heap = <<>>
            /\ (cbs' # cbs /\ cbs'.event.task = t /\ cbs'.raised[Len(cbs'.raised)]) =>
                  /\ UNCHANGED <<task_vars, exec_vars>>
                  /\ pc'[t] # pc[t] =>
                        pc[t] = "notify" /\ cbs'.invoked = cbs.registry["result"]
                  /\ pc'[t] = pc[t] => UNCHANGED <<orch_vars, queue_vars, pc, result>>]_vars

\* the first of two result callbacks raised, the second was invoked all the
\* same, and the completion path cleared the busy flag
C31_Witness ==
    /\ cbs.event.kind = "result"
    /\ cbs.registry["result"] = <<2, 1>>
    /\ cbs.invoked = <<2, 1>>
    /\ cbs.raised = <<TRUE, FALSE>>
    /\ pc[cbs.event.task] = "done"
    /\ ~is_processing /\ orch_current = None

\* the branch is one _validate_branch accepts
ValidBranch(branch) ==
    /\ strip(branch) # <<>>
    /\ \A i \in 1..Len(branch) : branch[i] \notin {"<", ">", ":", "\"", "|", "?", "*"}

\* C32: constructing a BuildTask with strategy SPECIAL raises whenever arg3
\* is absent or empty; with a branch the constructor accepts it succeeds for
\* SPECIAL with a non-empty arg3 and for every other strategy with or
\* without arg3.
C32_SpecialRequiresArg3 ==
    /\ [](ret.op = "BuildTask" =>
            /\ (ret.strategy = "special" /\ ret.arg3 \in {NoArg3, ""}) =>
                  ret.status = "raise"
            /\ ValidBranch(ret.branch) =>
                  ((ret.status = "raise")
                      <=> (ret.strategy = "special" /\ ret.arg3 \in {NoArg3, ""}))
            /\ ret.status # "raise" =>
                  /\ bt.strategy = ret.strategy /\ bt.arg3 = ret.arg3
                  /\ bt.branch = ret.branch /\ bt.status = "PENDING")
    /\ [][(ret' # ret /\ ret'.op = "BuildTask" /\ ret'.status = "raise") => bt' = bt]_vars

\* a SPECIAL task was constructed with arg3 set
C32_Witness ==
    /\ ret.op = "BuildTask" /\ ret.status = "none"
    /\ bt.strategy = "special" /\ bt.arg3 = "x" /\ bt.status = "PENDING"

\* C33: driven through submit_build_request, cancel_build and the
\* completion of tasks, execute_task is only entered while the executor is
\* not executing; the executing flag implies the busy flag, and the
\* executor's already-running error never becomes a result.
C33_ExecutorNeverEnteredWhileBusy ==
    /\ [](is_executing => is_processing)
    /\ [](\A t \in Tasks : result[t].error # "Executor is already running a task")
    /\ [][\A t \in Tasks : (pc[t] = "prep" /\ pc'[t] # "prep") =>
             (~is_executing /\ pc'[t] = "launching" /\ ex_task' = t)]_vars

\* the completion path has started a queued task, which is executing, while
\* a further request waits
C33_Witness ==
    /\ is_executing /\ is_processing /\ total_dequeued >= 1
    /\ ex_task # None /\ pc[ex_task] = "reading"
    /\ \E u \in Tasks : pc[u] = "done"
    /\ Len(lookup) >= 1

\* C34: submit_build_request answers "started" only when no task is waiting
\* in the queue, so that no new request runs ahead of waiting ones, tasks
\* restored from the persisted file included.
C34_NoQueueBypass ==
    [][(ret' # ret /\ ret'.op = "submit" /\ ret'.status = "started") =>
          (lookup = <<>> /\ heap = <<>>)]_vars

\* request t was accepted and its BuildResult has not been delivered to every
\* callback: it waits in the queue, or is scheduled or being processed
Undelivered(t) ==
    \/ t \in Ids(lookup)
    \/ pc[t] \in {"scheduled", "prep", "launching", "reading", "notify"}

\* the persisted snapshot lists task t
InSnapshot(t) ==
    file.exists /\ \E i \in 1..Len(file.tasks) : file.tasks[i].id = t

\* C35: at every point every accepted request whose BuildResult has not been
\* delivered, whether it waits, was started from idle or was dequeued and is
\* running, is listed in the persisted snapshot.
C35_UndeliveredIsPersisted ==
    \A t \in Tasks : Undelivered(t) => InSnapshot(t)

\* C36: tasks restored from the persisted file when the plugin starts are
\* eventually dequeued and processed, in queue order, without any new
\* submission being needed.
C36_RestoredTasksAreProcessed ==
    \A t \in Tasks :
        (ret.op = "restart" /\ t \in Ids(lookup))
            ~> (pc[t] # "none" \/ status[t] = "CANCELLED")

\* C37: whenever no queue operation is in progress the priority structure
\* and the lookup table hold the same task ids, so that get_queue_size and
\* total_size equal the sum of tasks_by_priority, the sum of tasks_by_branch
\* and the number of ids that have a position.
C37_QueueStructuresAgree ==
    LET by_priority == get_queue_status.tasks_by_priority
        positioned == {t \in Tasks : get_task_position(lookup, t) # None}
    IN  /\ Ids(heap) = Ids(lookup)
        /\ get_queue_size = get_queue_status.total_size
        /\ get_queue_size =
              by_priority[LOW] + by_priority[NORMAL] + by_priority[HIGH] + by_priority[URGENT]
        /\ get_queue_size = get_queue_status.tasks_in_lookup
        /\ get_queue_size = Cardinality(positioned)

\* C38: once cancel_build without a task id has answered "cancelled" (the
\* executor's cancellation flag is set from then on), the task that was
\* executing ends CANCELLED, the executor becomes idle, and the completion
\* path starts the next queued task or clears the busy flag.
C38_CancelledTaskEndsCancelled ==
    /\ [][(CancelBuildCurrent /\ ret'.status = "cancelled") =>
             (ex_task # None /\ is_cancelled')]_vars
    /\ [][\A t \in Tasks :
             (is_cancelled /\ ex_task = t /\ ~is_executing') =>
                 status'[t] = "CANCELLED"]_vars
    /\ (is_cancelled ~> ~is_executing)
    /\ \A t \in Tasks :
          (is_cancelled /\ ex_task = t) ~>
              (pc[t] = "done" /\ (~is_processing \/ \E u \in Tasks : pc[u] # "none" /\ u # t))

\* C39: the BuildResult built and delivered for a task that was cancelled
\* while executing is never a success, whatever the exit code of its process
\* and whatever artifact is found in the publish root.
C39_CancelledNeverSucceeds ==
    \A t \in Tasks :
        (status[t] = "CANCELLED" /\ result[t].built) =>
            (~result[t].success /\ result[t].build_info = None)

\* the result of a task cancelled during execution is being delivered, and
\* an artifact of sufficient size was found in the publish root
C39_Witness ==
    \E t \in Tasks :
        /\ pc[t] = "notify" /\ status[t] = "CANCELLED"
        /\ error_message[t] = "Task was cancelled during execution"
        /\ artifact # None /\ artifact >= min_size_threshold
        /\ result[t].built

\* C40: a cancellation issued while one task is executing, at any point of
\* its execution, touches that task only: it marks no other task CANCELLED
\* and terminates no other task's process, the cancellation flag never
\* outlives the execution it was set in, and it is false whenever an
\* execution begins to read output.
C40_CancellationDoesNotLeak ==
    /\ [](is_cancelled => (is_executing /\ ex_task # None /\ ex_process = ex_task))
    /\ [][XCancelCurrent =>
             \A u \in Tasks \ {ex_task} : status'[u] = status[u] /\ proc'[u] = proc[u]]_vars
    /\ [][(is_cancelled /\ ex_task' # ex_task) => ~is_cancelled']_vars
    /\ [][\A t \in Tasks :
             /\ (pc[t] # "reading" /\ pc'[t] = "reading") => ~is_cancelled'
             /\ (status[t] # "CANCELLED" /\ status'[t] = "CANCELLED") =>
                   (is_cancelled /\ ex_task = t)]_vars

\* a task was cancelled during its execution and ended CANCELLED; the next
\* task is executing, its process running, the cancellation flag false
C40_Witness ==
    \E t, u \in Tasks :
        /\ status[t] = "CANCELLED" /\ pc[t] = "notify"
        /\ pc[u] = "reading" /\ status[u] = "RUNNING" /\ proc[u] = "running"
        /\ ex_task = u /\ ~is_cancelled

====
